---- MODULE Spec2Model ----
(***************************************************************************)
(* Model of the Express server of src/server.js: the /health endpoint, the *)
(* upload + process orchestrator (POST /api/process) and the download      *)
(* relay (GET /api/download).  Each request slot r runs one handler; the   *)
(* handler's awaits are the points where other requests may interleave.    *)
(* Upstream services (the hosting service, the transform API, the remote   *)
(* download host) are the environment: their outcomes are chosen           *)
(* nondeterministically from small sets.                                   *)
(*                                                                         *)
(* Spec      : MaxReq requests interleaved at their awaits; the clock is   *)
(*             read but does not advance.                                  *)
(* SpecTimed : one request and MaxProbe health checks, with the clock      *)
(*             advancing between the steps.                                *)
(* SpecClient: one call of processImage of src/script.js against the       *)
(*             server, with the clock advancing and the timeout signal.    *)
(* SpecGenerate: the page of src/script.js: a file is selected and         *)
(*             handleGenerate runs against the server; SpecGenerateFair    *)
(*             adds that the browser's own steps are taken.                *)
(***************************************************************************)
EXTENDS Integers, Sequences, FiniteSets, TLC

\* ------------------------------------------------------------------ bounds
MaxReq == 2      \* request slots handled concurrently
MaxClock == 2    \* clock readings 0..MaxClock (Date.now(), in ticks)
MaxProbe == 2    \* additional slots that serve health checks only

Reqs == 1..MaxReq
Probes == (MaxReq + 1)..(MaxReq + MaxProbe)
Slots == Reqs \cup Probes

\* ------------------------------------------------- JavaScript values (tagged)
Undef == [t |-> "undefined"]
Null == [t |-> "null"]
Str(s) == [t |-> "string", v |-> s]
Num(n) == [t |-> "number", v |-> n]
Bool(b) == [t |-> "boolean", v |-> b]
Obj(s, res, msg, ts, rt) ==
  [t |-> "object", success |-> s, result |-> res, message |-> msg,
   timestamp |-> ts, responseTime |-> rt]

\* JavaScript truthiness: what `!x` and `x || y` test
Truthy(x) ==
  CASE x.t = "undefined" -> FALSE
    [] x.t = "null" -> FALSE
    [] x.t = "string" -> x.v # ""
    [] x.t = "number" -> x.v # 0
    [] x.t = "boolean" -> x.v
    [] OTHER -> TRUE

\* x || y
OrElse(x, y) == IF Truthy(x) THEN x ELSE y

\* String(x), as `new Error(x)` and template strings coerce a value
JSToString(x) ==
  CASE x.t = "string" -> x.v
    [] x.t = "number" -> ToString(x.v)
    [] x.t = "boolean" -> (IF x.v THEN "true" ELSE "false")
    [] x.t = "null" -> "null"
    [] x.t = "undefined" -> "undefined"
    [] OTHER -> "[object Object]"

\* ------------------------------------------------------- string operations
\* String.prototype.startsWith
startsWith(s, p) == Len(s) >= Len(p) /\ SubSeq(s, 1, Len(p)) = p

\* String.prototype.includes (case-sensitive substring test)
includes(s, p) ==
  \E i \in 1..(Len(s) - Len(p) + 1) : SubSeq(s, i, i + Len(p) - 1) = p

IsSpace(c) == c \in {" ", "\n", "\t", "\r"}

RECURSIVE trimStart(_)
trimStart(s) ==
  IF s # "" /\ IsSpace(SubSeq(s, 1, 1)) THEN trimStart(SubSeq(s, 2, Len(s))) ELSE s

RECURSIVE trimEnd(_)
trimEnd(s) ==
  IF s # "" /\ IsSpace(SubSeq(s, Len(s), Len(s)))
  THEN trimEnd(SubSeq(s, 1, Len(s) - 1)) ELSE s

\* String.prototype.trim
trim(s) == trimEnd(trimStart(s))

\* encodeURIComponent on one character of the URLs used here
encodeChar(c) ==
  CASE c = ":" -> "%3A"
    [] c = "/" -> "%2F"
    [] c = " " -> "%20"
    [] c = "?" -> "%3F"
    [] c = "=" -> "%3D"
    [] OTHER -> c

RECURSIVE encodeURIComponent(_)
encodeURIComponent(s) ==
  IF s = "" THEN ""
  ELSE encodeChar(SubSeq(s, 1, 1)) \o encodeURIComponent(SubSeq(s, 2, Len(s)))

\* new Date().toISOString() at clock reading t (t < 10 ticks after the epoch)
toISOString(t) == "1970-01-01T00:00:00.00" \o ToString(t) \o "Z"

\* Response.ok of node-fetch: status in 200..299
ok(status) == status >= 200 /\ status < 300

\* -------------------------------------------------------------------- state
VARIABLES
  now,            \* the clock read by Date.now() / new Date()
  pc,             \* per request: where its handler is suspended
  route,          \* per request: which endpoint it called
  input,          \* per request: req.body (process) or req.query (download)
  loc,            \* per request: the handler's local variables
  hostCalls,      \* per request: calls made to the hosting upload endpoint
  transformCalls, \* per request: URLs fetched from the transform API
  fetchCalls,     \* per request: URLs fetched by the download relay
  hostOut,        \* per request: outcomes of its hosting calls
  apiOut,         \* per request: outcomes of its transform calls
  dlOut,          \* per request: outcomes of its download fetches
  headersSent,    \* per request: res.headersSent
  responses,      \* per request: the responses written to the client
  client          \* the browser's call of processImage (src/script.js)

vars == <<now, pc, route, input, loc, hostCalls, transformCalls, fetchCalls,
          hostOut, apiOut, dlOut, headersSent, responses, client>>

NoLoc == [startTime |-> 0, imageUrl |-> "", uploadTime |-> 0,
          processStartTime |-> 0, processTime |-> 0]

\* The browser before processImage is called
NoCall == [pc |-> "idle", impl |-> "none", payload |-> Undef, sentAt |-> 0,
           timedOut |-> FALSE, head |-> Undef, errorName |-> "",
           errorMessage |-> "", result |-> "",
           call |-> 1,               \* the server slot that serves the call
           gen |-> "idle",           \* where handleGenerate is
           runs |-> 0,               \* runs of handleGenerate started
           selectedFile |-> Null,
           resultImageUrl |-> Null,
           progressInterval |-> Null,
           timers |-> {},            \* the intervals set and not cleared
           timerSeq |-> 0,           \* the last id setInterval returned
           uploadSection |-> TRUE,   \* sections: TRUE when not hidden
           processingLoader |-> FALSE,
           resultSection |-> FALSE,
           errorMessageShown |-> FALSE,
           errorText |-> ""]

Init ==
  /\ now = 0
  /\ pc = [r \in Slots |-> "idle"]
  /\ route = [r \in Slots |-> "none"]
  /\ input = [r \in Slots |-> Undef]
  /\ loc = [r \in Slots |-> NoLoc]
  /\ hostCalls = [r \in Slots |-> <<>>]
  /\ transformCalls = [r \in Slots |-> <<>>]
  /\ fetchCalls = [r \in Slots |-> <<>>]
  /\ hostOut = [r \in Slots |-> <<>>]
  /\ apiOut = [r \in Slots |-> <<>>]
  /\ dlOut = [r \in Slots |-> <<>>]
  /\ headersSent = [r \in Slots |-> FALSE]
  /\ responses = [r \in Slots |-> <<>>]
  /\ client = NoCall

\* Time passes between any two steps.
Tick ==
  /\ now < MaxClock
  /\ now' = now + 1
  /\ UNCHANGED <<client, pc, route, input, loc, hostCalls, transformCalls, fetchCalls,
                 hostOut, apiOut, dlOut, headersSent, responses>>

\* Variant of Send that keeps the headers-sent flag in one place for all
\* requests
SendSharedFlag(r, resp) ==
  /\ responses' = [responses EXCEPT ![r] = Append(@, resp)]
  /\ headersSent' = [q \in Slots |-> TRUE]
  /\ pc' = [pc EXCEPT ![r] = "done"]

\* res.status(..).json(..) / res.json(..): writes one response and ends it
Send(r, resp) ==
  /\ responses' = [responses EXCEPT ![r] = Append(@, resp)]
  /\ headersSent' = [headersSent EXCEPT ![r] = TRUE]
  /\ pc' = [pc EXCEPT ![r] = "done"]

\* ------------------------------------------------------------ GET /health
\* Variant of Health that reports the time left to the clock's bound
HealthCountdown(r) ==
  /\ pc[r] = "idle"
  /\ route' = [route EXCEPT ![r] = "health"]
  /\ Send(r, [status |-> 200,
              body |-> [status |-> "OK", timestamp |-> Str(toISOString(now)),
                        uptime |-> MaxClock - now]])
  /\ UNCHANGED <<client, now, input, loc, hostCalls, transformCalls, fetchCalls,
                 hostOut, apiOut, dlOut>>

\* The handler of GET /health: it answers at once
Health(r) ==
  /\ pc[r] = "idle"
  /\ route' = [route EXCEPT ![r] = "health"]
  /\ Send(r, [status |-> 200,
              body |-> [status |-> "OK", timestamp |-> Str(toISOString(now)),
                        uptime |-> now]])
  /\ UNCHANGED <<client, now, input, loc, hostCalls, transformCalls, fetchCalls,
                 hostOut, apiOut, dlOut>>

\* ------------------------------------------------------ POST /api/process
\* Request bodies: image / filename / mimetype, each possibly absent
ProcessBodies ==
  { [image |-> Undef, filename |-> Undef, mimetype |-> Undef],
    [image |-> Str(""), filename |-> Str("cat.png"), mimetype |-> Str("image/png")],
    [image |-> Str("aGVsbG8="), filename |-> Str("cat.png"), mimetype |-> Undef],
    [image |-> Num(7), filename |-> Undef, mimetype |-> Undef] }

HostingEndpoint == "https://catbox.moe/user/api.php"
TransformEndpoint == "https://api.nekolabs.web.id/style-changer/remove-clothes?imageUrl="

NoBody == [parsed |-> FALSE, data |-> Undef]

\* node-fetch rejects a fetch that fails at the network level with FetchError
\* "request to <url> failed, reason: <system error>"
Rejection(url, reason) ==
  [kind |-> "reject",
   message |-> "request to " \o url \o " failed, reason: " \o reason,
   status |-> 0, contentType |-> Null, text |-> "", body |-> NoBody]

\* A response head: status and content-type header
Response(status, contentType, text) ==
  [kind |-> "response", message |-> "", status |-> status,
   contentType |-> contentType, text |-> text, body |-> NoBody]

JsonType == Str("application/json; charset=utf-8")

\* Outcomes of the hosting upload: a rejection, or a response (status, text)
HostOutcomes ==
  { Rejection(HostingEndpoint, "getaddrinfo ENOTFOUND catbox.moe"),
    Rejection(HostingEndpoint, "connect EHOSTUNREACH 203.0.113.7:443"),
    Response(403, Str("text/html"), "Forbidden"),
    Response(200, Str("text/html"), ""),
    Response(200, Str("text/html"), "http://files.catbox.moe/a1.png"),
    Response(200, Str("text/html"), "https://files.catbox.moe/a1.png"),
    Response(200, Str("text/html"), "https://files.catbox.moe/a1.png\n") }

\* Outcomes of the transform fetch: a rejection, or a response head
ApiOutcomes(apiUrl) ==
  { Rejection(apiUrl, "getaddrinfo ENOTFOUND api.nekolabs.web.id") }
  \cup { Response(s, JsonType, "") : s \in {400, 403, 404, 429, 503} }
  \cup { Response(200, c, "") : c \in {Null, Str("text/html"), JsonType} }

\* JSON bodies the transform API may answer with (parsed |-> FALSE: the body
\* does not parse as JSON)
ApiBodies ==
  { [parsed |-> FALSE, data |-> Undef],
    [parsed |-> TRUE,
     data |-> Obj(Bool(TRUE), Str("https://cdn.example/out.png"), Undef, Undef, Undef)],
    [parsed |-> TRUE,
     data |-> Obj(Bool(TRUE), Str("https://cdn.example/out.png"), Undef,
                  Str("2025-01-01T00:00:00.000Z"), Str("31500ms"))],
    [parsed |-> TRUE,
     data |-> Obj(Num(1), Str("https://cdn.example/out.png"), Undef, Undef, Undef)],
    [parsed |-> TRUE, data |-> Obj(Bool(TRUE), Undef, Undef, Undef, Undef)],
    [parsed |-> TRUE,
     data |-> Obj(Bool(TRUE), Str("ftp://cdn.example/out.png"), Undef, Undef, Undef)],
    [parsed |-> TRUE, data |-> Obj(Bool(TRUE), Num(42), Undef, Undef, Undef)],
    [parsed |-> TRUE, data |-> Obj(Bool(FALSE), Undef, Undef, Undef, Undef)],
    [parsed |-> TRUE,
     data |-> Obj(Bool(FALSE), Undef, Str("Too many faces in image"), Undef, Undef)],
    [parsed |-> TRUE,
     data |-> Obj(Bool(FALSE), Undef, Str("Image could not be processed"), Undef, Undef)] }

\* Variant of statusCode without the "Too many" branch
statusCodeNoRateLimit(message) ==
  IF includes(message, "Invalid") \/ includes(message, "unsupported") THEN 400
  ELSE IF includes(message, "not found") \/ includes(message, "expired") THEN 404
  ELSE IF includes(message, "reach") \/ includes(message, "unreachable") THEN 503
  ELSE 500

\* Variant of statusCode whose default is 502
statusCodeBadGateway(message) ==
  IF includes(message, "Invalid") \/ includes(message, "unsupported") THEN 400
  ELSE IF includes(message, "not found") \/ includes(message, "expired") THEN 404
  ELSE IF includes(message, "Too many") THEN 429
  ELSE IF includes(message, "reach") \/ includes(message, "unreachable") THEN 503
  ELSE 502

\* The catch block's mapping from the error message to the status code
statusCode(message) ==
  IF includes(message, "Invalid") \/ includes(message, "unsupported") THEN 400
  ELSE IF includes(message, "not found") \/ includes(message, "expired") THEN 404
  ELSE IF includes(message, "Too many") THEN 429
  ELSE IF includes(message, "reach") \/ includes(message, "unreachable") THEN 503
  ELSE 500

\* The response the catch block builds for a thrown error
ProcessError(message, t) ==
  [status |-> statusCode(message),
   body |-> [success |-> FALSE,
             message |-> IF message # "" THEN message ELSE "Failed to process image",
             timestamp |-> Str(toISOString(t))]]

\* The response for a request without image data
MissingInput ==
  [status |-> 400, body |-> [success |-> FALSE, message |-> "No image data provided"]]

\* Buffer.from(image, 'base64') throws TypeError unless image is a string
BufferFromError(image) ==
  "The first argument must be of type string or an instance of Buffer, "
  \o "ArrayBuffer, or Array or an Array-like Object. Received type "
  \o image.t \o " (" \o JSToString(image) \o ")"

\* The upload the handler sends to the hosting service
UploadCall(body) ==
  [url |-> HostingEndpoint,
   fileToUpload |-> body.image.v,
   filename |-> OrElse(body.filename, Str("image.png")).v,
   contentType |-> OrElse(body.mimetype, Str("image/png")).v]

\* Variant of missingImage that tests only for an absent field
missingImageUndefinedOnly(body) == body.image.t = "undefined"

\* The test for a request without image data: !image
missingImage(body) == ~Truthy(body.image)

\* The handler from its entry to its first await (the hosting upload)
ProcessRequest(r, body) ==
  /\ pc[r] = "idle"
  /\ route' = [route EXCEPT ![r] = "process"]
  /\ input' = [input EXCEPT ![r] = body]
  /\ IF missingImage(body)
     THEN /\ Send(r, MissingInput)
          /\ UNCHANGED <<loc, hostCalls>>
     ELSE /\ loc' = [loc EXCEPT ![r].startTime = now]
          /\ IF body.image.t # "string"
             THEN /\ Send(r, ProcessError(BufferFromError(body.image), now))
                  /\ UNCHANGED hostCalls
             ELSE /\ hostCalls' = [hostCalls EXCEPT ![r] = Append(@, UploadCall(body))]
                  /\ pc' = [pc EXCEPT ![r] = "awaitUpload"]
                  /\ UNCHANGED <<responses, headersSent>>
  /\ UNCHANGED <<client, now, transformCalls, fetchCalls, hostOut, apiOut, dlOut>>

\* Variant of validHostedUrl that accepts any http scheme
validHostedUrlAnyHttp(imageUrl) == imageUrl # "" /\ startsWith(imageUrl, "http")

\* The check of the hosted URL
validHostedUrl(imageUrl) == imageUrl # "" /\ startsWith(imageUrl, "https://")

\* The URL of the transform call for a hosted image URL
apiUrlFor(imageUrl) == TransformEndpoint \o encodeURIComponent(trim(imageUrl))

\* Variant of uploadError that checks neither the rejection nor the status
uploadErrorUnchecked(out) ==
  IF out.kind = "response" /\ ok(out.status) /\ ~validHostedUrl(out.text)
  THEN "Invalid URL from image hosting"
  ELSE ""

\* The error, if any, that the upload step throws ("" when it passes)
uploadError(out) ==
  IF out.kind = "reject" THEN out.message
  ELSE IF ~ok(out.status) THEN "Failed to upload image to hosting"
  ELSE IF ~validHostedUrl(out.text) THEN "Invalid URL from image hosting"
  ELSE ""

\* Variant of UploadSettles that repeats a failed upload once
UploadSettlesRetry(r, out) ==
  /\ pc[r] = "awaitUpload"
  /\ hostOut' = [hostOut EXCEPT ![r] = Append(@, out)]
  /\ IF uploadError(out) # "" /\ Len(hostCalls[r]) < 2
     THEN /\ hostCalls' = [hostCalls EXCEPT ![r] = Append(@, UploadCall(input[r]))]
          /\ UNCHANGED <<loc, transformCalls, pc, responses, headersSent>>
     ELSE /\ loc' = IF out.kind = "response" /\ ok(out.status)
                    THEN [loc EXCEPT ![r].imageUrl = out.text,
                                     ![r].uploadTime = now - loc[r].startTime,
                                     ![r].processStartTime =
                                        IF validHostedUrl(out.text) THEN now ELSE @]
                    ELSE loc
          /\ IF uploadError(out) # ""
             THEN /\ Send(r, ProcessError(uploadError(out), now))
                  /\ UNCHANGED transformCalls
             ELSE /\ transformCalls' =
                       [transformCalls EXCEPT ![r] = Append(@, apiUrlFor(out.text))]
                  /\ pc' = [pc EXCEPT ![r] = "awaitTransform"]
                  /\ UNCHANGED <<responses, headersSent>>
          /\ UNCHANGED hostCalls
  /\ UNCHANGED <<client, now, route, input, fetchCalls, apiOut, dlOut>>

\* The hosting upload settles and its text is read; the handler runs to its
\* next await (the transform fetch)
UploadSettles(r, out) ==
  /\ pc[r] = "awaitUpload"
  /\ hostOut' = [hostOut EXCEPT ![r] = Append(@, out)]
  /\ loc' = IF out.kind = "response" /\ ok(out.status)
            THEN [loc EXCEPT ![r].imageUrl = out.text,
                             ![r].uploadTime = now - loc[r].startTime,
                             ![r].processStartTime =
                                IF validHostedUrl(out.text) THEN now ELSE @]
            ELSE loc
  /\ IF uploadError(out) # ""
     THEN /\ Send(r, ProcessError(uploadError(out), now))
          /\ UNCHANGED transformCalls
     ELSE /\ transformCalls' =
               [transformCalls EXCEPT ![r] = Append(@, apiUrlFor(out.text))]
          /\ pc' = [pc EXCEPT ![r] = "awaitTransform"]
          /\ UNCHANGED <<responses, headersSent>>
  /\ UNCHANGED <<client, now, route, input, hostCalls, fetchCalls, apiOut, dlOut>>

\* The transform fetch settles: the response head arrives, or the fetch rejects
TransformSettles(r) ==
  /\ pc[r] = "awaitTransform"
  /\ \E out \in ApiOutcomes(transformCalls[r][Len(transformCalls[r])]) :
       /\ apiOut' = [apiOut EXCEPT ![r] = Append(@, out)]
       /\ IF out.kind = "reject"
          THEN /\ Send(r, ProcessError(out.message, now))
               /\ UNCHANGED loc
          ELSE /\ loc' = [loc EXCEPT ![r].processTime = now - loc[r].processStartTime]
               /\ pc' = [pc EXCEPT ![r] = "awaitApiBody"]
               /\ UNCHANGED <<responses, headersSent>>
  /\ UNCHANGED <<client, now, route, input, hostCalls, transformCalls, fetchCalls,
                 hostOut, dlOut>>

\* The error thrown for a non-2xx transform status
apiStatusError(status) ==
  IF status = 400 THEN "Invalid image format or unsupported image type"
  ELSE IF status = 404 THEN "Image not found. The uploaded URL may have expired"
  ELSE IF status = 429 THEN "Too many requests. Please wait a moment and try again"
  ELSE IF status >= 500 THEN "API server error. Please try again in a few minutes"
  ELSE "API error (status " \o ToString(status) \o ")"

\* The content-type test on the transform response
isJsonType(contentType) ==
  Truthy(contentType) /\ includes(contentType.v, "application/json")

\* Variant of apiDataError without the startsWith('http') test
apiDataErrorNoPrefixCheck(body, apiUrl) ==
  IF ~body.parsed
  THEN "invalid json response body at " \o apiUrl
       \o " reason: Unexpected token < in JSON at position 0"
  ELSE IF body.data.t = "null"
  THEN "Cannot read properties of null (reading 'success')"
  ELSE IF ~Truthy(body.data.success)
  THEN JSToString(OrElse(body.data.message, Str("API processing failed")))
  ELSE IF ~Truthy(body.data.result)
  THEN "Invalid result from API"
  ELSE IF body.data.result.t # "string"
  THEN "data.result.startsWith is not a function"
  ELSE ""

\* The error, if any, that the validation of the parsed body throws
\* ("" when the body passes)
apiDataError(body, apiUrl) ==
  IF ~body.parsed
  THEN "invalid json response body at " \o apiUrl
       \o " reason: Unexpected token < in JSON at position 0"
  ELSE IF body.data.t = "null"
  THEN "Cannot read properties of null (reading 'success')"
  ELSE IF ~Truthy(body.data.success)
  THEN JSToString(OrElse(body.data.message, Str("API processing failed")))
  ELSE IF ~Truthy(body.data.result)
  THEN "Invalid result from API"
  ELSE IF body.data.result.t # "string"
  THEN "data.result.startsWith is not a function"
  ELSE IF ~startsWith(body.data.result.v, "http")
  THEN "Invalid result from API"
  ELSE ""

\* Variant of apiResponseError whose non-JSON message begins with "Invalid"
apiResponseErrorCapitalised(resp, apiUrl) ==
  IF ~ok(resp.status) THEN apiStatusError(resp.status)
  ELSE IF ~isJsonType(resp.contentType) THEN "Invalid response format from API"
  ELSE apiDataError(resp.body, apiUrl)

\* The error, if any, that the handling of the transform response throws
apiResponseError(resp, apiUrl) ==
  IF ~ok(resp.status) THEN apiStatusError(resp.status)
  ELSE IF ~isJsonType(resp.contentType) THEN "API returned invalid response format"
  ELSE apiDataError(resp.body, apiUrl)

\* The success payload
ProcessResult(data, l, t) ==
  [status |-> 200,
   body |-> [success |-> TRUE,
             result |-> data.result.v,
             uploadedUrl |-> trim(l.imageUrl),
             timestamp |-> OrElse(data.timestamp, Str(toISOString(t))),
             timing |-> [upload |-> ToString(l.uploadTime) \o "ms",
                         processing |-> OrElse(data.responseTime,
                                               Str(ToString(l.processTime) \o "ms")),
                         total |-> ToString(t - l.startTime) \o "ms"]]]

\* The answer of the handler to a transform response whose body has been read
ProcessAnswer(resp, apiUrl, l, t) ==
  LET err == apiResponseError(resp, apiUrl)
  IN IF err # "" THEN ProcessError(err, t) ELSE ProcessResult(resp.body.data, l, t)

\* The transform response body has been read (as text, or parsed as JSON);
\* the handler validates it and answers
ApiBodyRead(r) ==
  /\ pc[r] = "awaitApiBody"
  /\ LET head == apiOut[r][Len(apiOut[r])]
         apiUrl == transformCalls[r][Len(transformCalls[r])]
     IN \E b \in (IF ok(head.status) /\ isJsonType(head.contentType)
                  THEN ApiBodies ELSE {NoBody}) :
          LET resp == [head EXCEPT !.body = b]
          IN /\ apiOut' = [apiOut EXCEPT ![r][Len(apiOut[r])] = resp]
             /\ Send(r, ProcessAnswer(resp, apiUrl, loc[r], now))
  /\ UNCHANGED <<client, now, route, input, loc, hostCalls, transformCalls, fetchCalls,
                 hostOut, dlOut>>

\* ----------------------------------------------------- GET /api/download
\* Query strings: url / filename, each possibly absent
DownloadQueries ==
  { [url |-> Undef, filename |-> Str("my.png")],
    [url |-> Str(""), filename |-> Undef],
    [url |-> Str("https://cdn.example/out.png"), filename |-> Undef],
    [url |-> Str("https://cdn.example/out.png"), filename |-> Str("my.png")],
    [url |-> Str("https://cdn.example/out.png"), filename |-> Str("my\n.png")] }

\* An outcome of the relay's fetch: the response with its buffered body.
\* lateFailure: a failure occurs after res.send has sent the headers
Fetched(status, contentType, bytes, lateFailure) ==
  [kind |-> "response", message |-> "", status |-> status,
   contentType |-> contentType, bytes |-> bytes, lateFailure |-> lateFailure]

FetchRejected(message) ==
  [kind |-> "reject", message |-> message, status |-> 0, contentType |-> Null,
   bytes |-> "", lateFailure |-> FALSE]

\* Outcomes of the relay's fetch of url
DownloadOutcomes(url) ==
  { FetchRejected("request to " \o url
                  \o " failed, reason: getaddrinfo ENOTFOUND cdn.example"),
    Fetched(404, Str("text/html"), "Not Found", FALSE),
    Fetched(200, Str("image/jpg"), "JFIF", TRUE),
    Fetched(200, Str("image/jpeg"), "JFIF", FALSE),
    Fetched(200, Str("image/webp"), "RIFFWEBP", FALSE),
    Fetched(200, Str("image/gif"), "GIF89a", FALSE),
    Fetched(200, Str("image/gif; name=a.webp"), "GIF89a", FALSE),
    Fetched(200, Null, "", FALSE) }

\* The response for a request without url
MissingUrl ==
  [status |-> 400, body |-> [success |-> FALSE, message |-> "Image URL is required"]]

\* Variant of missingUrl that tests only for an absent parameter
missingUrlUndefinedOnly(query) == query.url.t = "undefined"

\* The test for a request without url: !imageUrl
missingUrl(query) == ~Truthy(query.url)

\* The handler from its entry to its await of the fetch
DownloadRequest(r, query) ==
  /\ pc[r] = "idle"
  /\ route' = [route EXCEPT ![r] = "download"]
  /\ input' = [input EXCEPT ![r] = query]
  /\ IF missingUrl(query)
     THEN /\ Send(r, MissingUrl)
          /\ UNCHANGED fetchCalls
     ELSE /\ fetchCalls' = [fetchCalls EXCEPT ![r] = Append(@, query.url.v)]
          /\ pc' = [pc EXCEPT ![r] = "awaitFetch"]
          /\ UNCHANGED <<responses, headersSent>>
  /\ UNCHANGED <<client, now, loc, hostCalls, transformCalls, hostOut, apiOut, dlOut>>

\* Variant of extensionFor that tests for "gif" before "webp"
extensionForGifFirst(contentType) ==
  IF includes(contentType, "jpeg") \/ includes(contentType, "jpg") THEN "jpg"
  ELSE IF includes(contentType, "gif") THEN "gif"
  ELSE IF includes(contentType, "webp") THEN "webp"
  ELSE "png"

\* Variant of extensionFor that keeps the subtype name of a JPEG
extensionForSubtype(contentType) ==
  IF includes(contentType, "jpeg") THEN "jpeg"
  ELSE IF includes(contentType, "jpg") THEN "jpg"
  ELSE IF includes(contentType, "webp") THEN "webp"
  ELSE IF includes(contentType, "gif") THEN "gif"
  ELSE "png"

\* The file extension for a content type
extensionFor(contentType) ==
  IF includes(contentType, "jpeg") \/ includes(contentType, "jpg") THEN "jpg"
  ELSE IF includes(contentType, "webp") THEN "webp"
  ELSE IF includes(contentType, "gif") THEN "gif"
  ELSE "png"

\* The name of the attachment
downloadFilename(customFilename, contentType, t) ==
  JSToString(OrElse(customFilename,
                    Str("result_" \o ToString(t) \o "." \o extensionFor(contentType))))

\* res.setHeader throws on a header value with a control character
hasInvalidHeaderChar(s) == \E i \in 1..Len(s) : SubSeq(s, i, i) \in {"\n", "\r"}

\* The attachment the relay sends
Attachment(out, query, t) ==
  LET contentType == OrElse(out.contentType, Str("image/png")).v
      filename == downloadFilename(query.filename, contentType, t)
  IN [status |-> 200,
      headers |-> [contentType |-> contentType,
                   contentDisposition |-> "attachment; filename=\"" \o filename \o "\"",
                   contentLength |-> Len(out.bytes),
                   cacheControl |-> "no-cache"],
      body |-> out.bytes]

\* Variant of downloadCatch without the res.headersSent guard
downloadCatchUnguarded(sent, message) ==
  << [status |-> 500,
      body |-> [success |-> FALSE,
                message |-> IF message # "" THEN message
                            ELSE "Failed to download image"]] >>

\* The catch block: a JSON error, unless the headers have been sent
downloadCatch(sent, message) ==
  IF ~sent
  THEN << [status |-> 500,
           body |-> [success |-> FALSE,
                     message |-> IF message # "" THEN message
                                 ELSE "Failed to download image"]] >>
  ELSE << >>

\* Variant of downloadWrites that relays the body whatever the status
downloadWritesAnyStatus(out, query, sent, t) ==
  IF out.kind = "reject" THEN downloadCatch(sent, out.message)
  ELSE IF hasInvalidHeaderChar(Attachment(out, query, t).headers.contentDisposition)
  THEN downloadCatch(sent, "Invalid character in header content [\"Content-Disposition\"]")
  ELSE IF out.lateFailure
  THEN <<Attachment(out, query, t)>> \o downloadCatch(TRUE, "write EPIPE")
  ELSE <<Attachment(out, query, t)>>

\* What the handler writes to the client once the fetch has settled
downloadWrites(out, query, sent, t) ==
  IF out.kind = "reject" THEN downloadCatch(sent, out.message)
  ELSE IF ~ok(out.status)
  THEN downloadCatch(sent, "Failed to fetch image: " \o ToString(out.status))
  ELSE IF hasInvalidHeaderChar(Attachment(out, query, t).headers.contentDisposition)
  THEN downloadCatch(sent, "Invalid character in header content [\"Content-Disposition\"]")
  ELSE IF out.lateFailure
  THEN <<Attachment(out, query, t)>> \o downloadCatch(TRUE, "write EPIPE")
  ELSE <<Attachment(out, query, t)>>

\* The fetch settles and the body is buffered; the handler answers
DownloadSettles(r) ==
  /\ pc[r] = "awaitFetch"
  /\ \E out \in DownloadOutcomes(input[r].url.v) :
       /\ dlOut' = [dlOut EXCEPT ![r] = Append(@, out)]
       /\ responses' = [responses EXCEPT ![r] =
                          @ \o downloadWrites(out, input[r], headersSent[r], now)]
  /\ headersSent' = [headersSent EXCEPT ![r] = TRUE]
  /\ pc' = [pc EXCEPT ![r] = "done"]
  /\ UNCHANGED <<client, now, route, input, loc, hostCalls, transformCalls, fetchCalls,
                 hostOut, apiOut>>

\* ------------------------------------------------------------------- runs
\* One step of the handler of request r
Step(r) ==
  \/ Health(r)
  \/ \E body \in ProcessBodies : ProcessRequest(r, body)
  \/ \E out \in HostOutcomes : UploadSettles(r, out)
  \/ TransformSettles(r)
  \/ ApiBodyRead(r)
  \/ \E query \in DownloadQueries : DownloadRequest(r, query)
  \/ DownloadSettles(r)

Next == \E r \in Reqs : Step(r)

Spec == Init /\ [][Next]_vars

\* One request of any kind, health checks arriving at any time beside it,
\* and the clock advancing between the steps
NextTimed ==
  \/ Tick
  \/ Step(1)
  \/ \E r \in Probes : Health(r)

SpecTimed == Init /\ [][NextTimed]_vars

\* ------------------------------------------------- the browser (script.js)
WaitCeiling == 1   \* the 120000 ms of AbortSignal.timeout, in ticks

\* Everything the server holds
server == <<pc, route, input, loc, hostCalls, transformCalls, fetchCalls,
            hostOut, apiOut, dlOut, headersSent, responses>>

\* The two definitions of processImage in script.js
Impls == {"first", "second"}

\* Files the user may have selected (b64: the base64 text of the content)
SelectedFiles ==
  { [name |-> "cat.png", type |-> "image/png", b64 |-> "aGVsbG8="],
    [name |-> "empty.png", type |-> "image/png", b64 |-> ""] }

\* FileReader.readAsDataURL
fileToBase64(file) == "data:" \o file.type \o ";base64," \o file.b64

\* The position of the first c in s, 0 when there is none
indexOf(s, c) ==
  IF \E i \in 1..Len(s) : SubSeq(s, i, i) = c
  THEN CHOOSE i \in 1..Len(s) :
         /\ SubSeq(s, i, i) = c
         /\ \A j \in 1..(i - 1) : SubSeq(s, j, j) # c
  ELSE 0

\* s.split(',')[1]
splitSecond(s) ==
  IF indexOf(s, ",") = 0 THEN Undef
  ELSE LET rest == SubSeq(s, indexOf(s, ",") + 1, Len(s))
       IN IF indexOf(rest, ",") = 0 THEN Str(rest)
          ELSE Str(SubSeq(rest, 1, indexOf(rest, ",") - 1))

\* The request body processImage sends for a file
payloadOf(file) ==
  [image |-> splitSecond(fileToBase64(file)),
   filename |-> Str(file.name),
   mimetype |-> Str(file.type)]

\* processImage from its entry to its await of fetch('/api/process')
ProcessImageCall(impl, file) ==
  /\ client.pc = "idle"
  /\ client' = [client EXCEPT !.pc = "awaitFetch", !.impl = impl,
                              !.payload = payloadOf(file), !.sentAt = now]
  /\ UNCHANGED <<now, server>>

\* The request reaches the server: the handler of the call's slot starts
ServerReceives ==
  /\ client.pc = "awaitFetch"
  /\ ProcessRequest(client.call, client.payload)

\* What is thrown out of processImage
Thrown(name, message) == [kind |-> "throw", name |-> name, message |-> message, result |-> ""]

\* What processImage returns
Returned(result) == [kind |-> "return", name |-> "", message |-> "", result |-> result]

\* The catch block of the first processImage
catchFirst(name, message) ==
  IF name = "AbortError"
  THEN Thrown("Error", "Processing took too long (>2 min). Try a smaller image.")
  ELSE IF name = "TypeError" /\ includes(message, "fetch")
  THEN Thrown("Error", "Cannot connect to server. Check your internet connection.")
  ELSE Thrown(name, message)

\* The catch block of processImage: the second definition rethrows
catch(impl, name, message) ==
  IF impl = "first" THEN catchFirst(name, message) ELSE Thrown(name, message)

\* data.message of a response body
messageOf(body) == IF "message" \in DOMAIN body THEN Str(body.message) ELSE Undef

\* data.result of a response body
resultOf(body) == IF "result" \in DOMAIN body THEN Str(body.result) ELSE Undef

\* The validation of a response by the first processImage
validateFirst(head) ==
  IF ~Truthy(head.contentType) \/ ~includes(head.contentType.v, "application/json")
  THEN Thrown("Error", "Server returned invalid response (not JSON)")
  ELSE IF ~ok(head.status)
  THEN Thrown("Error", OrElse(messageOf(head.body),
                              Str("Server error (" \o ToString(head.status) \o ")")).v)
  ELSE IF ~head.body.success
  THEN Thrown("Error", OrElse(messageOf(head.body), Str("Processing failed")).v)
  ELSE IF ~Truthy(resultOf(head.body))
  THEN Thrown("Error", "No result from API")
  ELSE IF ~startsWith(head.body.result, "http")
  THEN Thrown("Error", "Invalid result URL from API")
  ELSE Returned(head.body.result)

\* The validation of a response by the second processImage
validateSecond(head) ==
  IF ~Truthy(head.contentType) \/ ~includes(head.contentType.v, "application/json")
  THEN Thrown("Error", "Server returned invalid response")
  ELSE IF ~ok(head.status) \/ ~head.body.success
  THEN Thrown("Error", OrElse(messageOf(head.body), Str("Processing failed")).v)
  ELSE IF ~Truthy(resultOf(head.body))
  THEN Thrown("Error", "No result from API")
  ELSE Returned(head.body.result)

\* How processImage ends once the response has been read
validate(impl, head) ==
  LET o == IF impl = "first" THEN validateFirst(head) ELSE validateSecond(head)
  IN IF o.kind = "throw" THEN catch(impl, o.name, o.message) ELSE o

\* processImage ends
Ends(o) ==
  client' = [client EXCEPT !.pc = IF o.kind = "throw" THEN "thrown" ELSE "returned",
                           !.errorName = o.name,
                           !.errorMessage = o.message,
                           !.result = o.result]

\* Answers the browser may get in place of the server's: the page of a
\* gateway in front of the server
GatewayHeads == { [status |-> 502, contentType |-> Str("text/html"), body |-> Undef] }

\* The fetch of /api/process settles: the response head arrives (from the
\* server once it has answered, or from a gateway), or the fetch rejects
ClientFetchSettles ==
  /\ client.pc = "awaitFetch"
  /\ \/ \E head \in GatewayHeads
                    \cup (IF pc[client.call] = "done" /\ responses[client.call] # << >>
                          THEN { [status |-> responses[client.call][1].status,
                                  contentType |-> JsonType,
                                  body |-> responses[client.call][1].body] }
                          ELSE {}) :
          client' = [client EXCEPT !.pc = "awaitBody", !.head = head]
     \/ Ends(catch(client.impl, "TypeError", "Failed to fetch"))
  /\ UNCHANGED <<now, server>>

\* The body of the response has been read; processImage validates it
ClientBodyRead ==
  /\ client.pc = "awaitBody"
  /\ Ends(validate(client.impl, client.head))
  /\ UNCHANGED <<now, server>>

\* processImage is waiting for the fetch or for the body of its response
Waiting == client.pc \in {"awaitFetch", "awaitBody"}

\* The signal of AbortSignal.timeout(120000) is due
TimeoutDue == client.impl = "first" /\ Waiting /\ now - client.sentAt >= WaitCeiling

\* The name of the DOMException the aborted fetch rejects with: TimeoutError
\* by the DOM standard, AbortError in engines that ignore the abort reason
AbortNames == {"TimeoutError", "AbortError"}

\* Variant of TimeoutFires in which the abort also ends the server's handler
TimeoutFiresCancels ==
  /\ TimeoutDue
  /\ \E name \in AbortNames :
       LET o == catch(client.impl, name, "The operation was aborted due to timeout")
       IN client' = [client EXCEPT !.pc = "thrown", !.timedOut = TRUE,
                                   !.errorName = o.name,
                                   !.errorMessage = o.message]
  /\ pc' = [pc EXCEPT ![1] = "done"]
  /\ UNCHANGED <<now, route, input, loc, hostCalls, transformCalls, fetchCalls,
                 hostOut, apiOut, dlOut, headersSent, responses>>

\* The timeout signal aborts the fetch; the catch block handles the rejection
TimeoutFires ==
  /\ TimeoutDue
  /\ \E name \in AbortNames :
       LET o == catch(client.impl, name, "The operation was aborted due to timeout")
       IN client' = [client EXCEPT !.pc = "thrown", !.timedOut = TRUE,
                                   !.errorName = o.name,
                                   !.errorMessage = o.message]
  /\ UNCHANGED <<now, server>>

\* Time passes, unless the timeout signal is due
ClientTick ==
  /\ ~TimeoutDue
  /\ Tick

\* One call of processImage against the server, with the clock advancing
NextClient ==
  \/ \E impl \in Impls, file \in SelectedFiles : ProcessImageCall(impl, file)
  \/ ServerReceives
  \/ \E out \in HostOutcomes : UploadSettles(1, out)
  \/ TransformSettles(1)
  \/ ApiBodyRead(1)
  \/ ClientFetchSettles
  \/ ClientBodyRead
  \/ TimeoutFires
  \/ ClientTick

SpecClient == Init /\ [][NextClient]_vars

\* ------------------------------------------------ handleGenerate (script.js)
MaxRuns == 1   \* runs of handleGenerate in one behaviour

\* startProgressTimer: progressInterval = setInterval(...)
startProgressTimer(c) ==
  [c EXCEPT !.timerSeq = @ + 1,
            !.progressInterval = Num(c.timerSeq + 1),
            !.timers = @ \cup {c.timerSeq + 1}]

\* stopProgressTimer: clearInterval(progressInterval), when one is set
stopProgressTimer(c) ==
  IF Truthy(c.progressInterval)
  THEN [c EXCEPT !.timers = @ \ {c.progressInterval.v}, !.progressInterval = Null]
  ELSE c

showError(c, message) == [c EXCEPT !.errorText = message, !.errorMessageShown = TRUE]

hideError(c) == [c EXCEPT !.errorMessageShown = FALSE]

\* handleFile with its reader.onload: an image file becomes the selected file
HandleFile(file) ==
  /\ client.uploadSection
  /\ client.selectedFile = Null
  /\ startsWith(file.type, "image/")
  /\ client' = hideError([client EXCEPT !.selectedFile = file])
  /\ UNCHANGED <<now, server>>

\* handleGenerate from the click to its await of fileToBase64.  The button
\* is in the upload section.
HandleGenerate(impl) ==
  /\ client.uploadSection
  /\ client.gen \in {"idle", "finished"}
  /\ client.selectedFile # Null
  /\ client.impl \in {"none", impl}
  /\ client.runs < MaxRuns
  /\ now + WaitCeiling <= MaxClock
  /\ client' = startProgressTimer(hideError(
                 [client EXCEPT !.gen = "readingFile", !.impl = impl,
                                !.runs = @ + 1, !.call = client.runs + 1,
                                !.pc = "idle", !.timedOut = FALSE, !.head = Undef,
                                !.errorName = "", !.errorMessage = "", !.result = "",
                                !.uploadSection = FALSE,
                                !.processingLoader = TRUE]))
  /\ UNCHANGED <<now, server>>

\* The catch block of handleGenerate
generateFailed(c, message) ==
  showError([stopProgressTimer(c) EXCEPT !.gen = "finished",
                                         !.processingLoader = FALSE,
                                         !.uploadSection = TRUE],
            IF message # "" THEN message ELSE "An error occurred. Please try again.")

\* handleGenerate after processImage has returned
generateSucceeded(c, result) ==
  [stopProgressTimer(c) EXCEPT !.gen = "finished",
                               !.resultImageUrl = Str(result),
                               !.processingLoader = FALSE,
                               !.resultSection = TRUE]

\* The message of the error fileToBase64 rejects with: the first definition
\* wraps the reader's event, which has no message; the second rejects with
\* the event itself
fileReadError(impl) == IF impl = "first" THEN "Failed to read file: undefined" ELSE ""

\* fileToBase64 settles: the file has been read and processImage is called
\* (up to its await of fetch), or the reader fails and handleGenerate ends
FileRead ==
  /\ client.gen = "readingFile"
  /\ \/ client' = [client EXCEPT !.gen = "processing", !.pc = "awaitFetch",
                                 !.payload = payloadOf(client.selectedFile),
                                 !.sentAt = now]
     \/ client' = generateFailed(client, fileReadError(client.impl))
  /\ UNCHANGED <<now, server>>

\* processImage has settled: handleGenerate goes on after its await
GenerateFinishes ==
  /\ client.gen = "processing"
  /\ client.pc \in {"returned", "thrown"}
  /\ client' = IF client.pc = "returned"
               THEN generateSucceeded(client, client.result)
               ELSE generateFailed(client, client.errorMessage)
  /\ UNCHANGED <<now, server>>

\* handleReset: the button is in the result section
HandleReset ==
  /\ client.resultSection
  /\ client' = hideError([client EXCEPT !.selectedFile = Null,
                                        !.resultImageUrl = Null,
                                        !.resultSection = FALSE,
                                        !.uploadSection = TRUE])
  /\ UNCHANGED <<now, server>>

\* Time passes; the clock's bound leaves room for the wait ceiling of a call
\* that is about to be made
GenerateTick ==
  /\ client.gen = "readingFile" => now + 1 + WaitCeiling <= MaxClock
  /\ ClientTick

\* The page: files are selected, handleGenerate runs, the server works on
\* the calls, the clock advances
NextGenerate ==
  \/ \E file \in SelectedFiles : HandleFile(file)
  \/ \E impl \in Impls : HandleGenerate(impl)
  \/ FileRead
  \/ ServerReceives
  \/ \E r \in 1..MaxRuns, out \in HostOutcomes : UploadSettles(r, out)
  \/ \E r \in 1..MaxRuns : TransformSettles(r)
  \/ \E r \in 1..MaxRuns : ApiBodyRead(r)
  \/ ClientFetchSettles
  \/ ClientBodyRead
  \/ TimeoutFires
  \/ GenerateFinishes
  \/ HandleReset
  \/ GenerateTick

SpecGenerate == Init /\ [][NextGenerate]_vars

\* The steps the browser takes by itself are taken, the request reaches the
\* server and an answer of the server reaches the browser; nothing obliges
\* the upstream services to answer the server, or the user to act
SpecGenerateFair ==
  /\ SpecGenerate
  /\ WF_vars(FileRead)
  /\ WF_vars(ServerReceives)
  /\ WF_vars(pc[client.call] = "done" /\ ClientFetchSettles)
  /\ WF_vars(ClientBodyRead)
  /\ WF_vars(TimeoutFires)
  /\ WF_vars(GenerateFinishes)
  /\ WF_vars(GenerateTick)

\* ----------------------------------------------------------------- claims
Done(r) == pc[r] = "done"
Answer(r) == responses[r][1]
Hosted(r) == hostOut[r][Len(hostOut[r])]
Transformed(r) == apiOut[r][Len(apiOut[r])]
IsProcess(r) == route[r] = "process"
IsDownload(r) == route[r] = "download"

\* The hosting upload of request r failed: a network-level failure or a
\* non-2xx response
HostingFailed(r) ==
  /\ hostOut[r] # << >>
  /\ (Hosted(r).kind = "reject" \/ ~ok(Hosted(r).status))

\* The transform response of request r has been received and handled
TransformAnswered(r) ==
  /\ Done(r)
  /\ apiOut[r] # << >>
  /\ Transformed(r).kind = "response"

\* C1: a POST /api/process request whose image is absent or empty is answered
\* with status 400 ("No image data provided"), and neither the hosting
\* service nor the transform API is called for it.
C1_MissingInput ==
  \A r \in Reqs :
    (IsProcess(r) /\ ~Truthy(input[r].image)) =>
      /\ Done(r)
      /\ Len(responses[r]) = 1
      /\ Answer(r).status = 400
      /\ Answer(r).body.message = "No image data provided"
      /\ hostCalls[r] = << >>
      /\ transformCalls[r] = << >>

C1_Witness ==
  /\ \E r \in Reqs : IsProcess(r) /\ input[r].image = Undef /\ Done(r)
  /\ \E r \in Reqs : IsProcess(r) /\ input[r].image = Str("") /\ Done(r)

\* C2: when the hosting upload fails (network failure or non-2xx response),
\* the transform API is never called for that request and the request ends
\* with an error response.
C2_UploadFailureStops ==
  \A r \in Reqs :
    (IsProcess(r) /\ HostingFailed(r)) =>
      /\ transformCalls[r] = << >>
      /\ apiOut[r] = << >>
      /\ Done(r)
      /\ Len(responses[r]) = 1
      /\ Answer(r).status >= 400
      /\ Answer(r).body.success = FALSE

C2_Witness ==
  /\ \E r \in Reqs : IsProcess(r) /\ HostingFailed(r) /\ Hosted(r).kind = "reject"
                     /\ Done(r)
  /\ \E r \in Reqs : IsProcess(r) /\ HostingFailed(r) /\ Hosted(r).status = 403
                     /\ Done(r)

\* C3: the status answered for a non-2xx transform response is fixed by the
\* transform's status: 400 -> 400, 404 -> 404, 429 -> 429, >= 500 -> 500,
\* any other non-2xx -> 500.
C3_TransformStatusMapping ==
  \A r \in Reqs :
    (IsProcess(r) /\ TransformAnswered(r) /\ ~ok(Transformed(r).status)) =>
      LET s == Transformed(r).status
      IN /\ Len(responses[r]) = 1
         /\ Answer(r).status = IF s \in {400, 404, 429} THEN s ELSE 500

C3_Witness ==
  /\ \E r \in Reqs : IsProcess(r) /\ TransformAnswered(r)
                     /\ Transformed(r).status = 429 /\ Answer(r).status = 429
  /\ \E r \in Reqs : IsProcess(r) /\ TransformAnswered(r)
                     /\ Transformed(r).status = 403 /\ Answer(r).status = 500

\* C4: a 200 answer of /api/process has success = true, its result is the
\* result URL of the transform response and starts with "http", and its
\* uploadedUrl is the URL the hosting call returned (its text, trimmed) and
\* starts with "http".
C4_SuccessPayload ==
  \A r \in Reqs :
    (IsProcess(r) /\ responses[r] # << >> /\ Answer(r).status = 200) =>
      /\ Answer(r).body.success = TRUE
      /\ Transformed(r).body.data.result = Str(Answer(r).body.result)
      /\ startsWith(Answer(r).body.result, "http")
      /\ Hosted(r).kind = "response"
      /\ Answer(r).body.uploadedUrl = trim(Hosted(r).text)
      /\ startsWith(Answer(r).body.uploadedUrl, "http")

C4_Witness ==
  \E r \in Reqs :
    /\ IsProcess(r) /\ Done(r) /\ Answer(r).status = 200
    /\ Hosted(r).text = "https://files.catbox.moe/a1.png\n"
    /\ Answer(r).body.uploadedUrl = "https://files.catbox.moe/a1.png"
    /\ Answer(r).body.result = "https://cdn.example/out.png"

\* The transform answered 2xx with a body that is not JSON-shaped
UpstreamBadResponse(r) ==
  /\ TransformAnswered(r)
  /\ ok(Transformed(r).status)
  /\ ~isJsonType(Transformed(r).contentType)

\* The transform answered 2xx JSON with success true and a result that is
\* missing or does not start with "http"
UpstreamInvalidResult(r) ==
  /\ TransformAnswered(r)
  /\ ok(Transformed(r).status)
  /\ isJsonType(Transformed(r).contentType)
  /\ Transformed(r).body.parsed
  /\ Transformed(r).body.data.t = "object"
  /\ Transformed(r).body.data.success = Bool(TRUE)
  /\ \/ ~Truthy(Transformed(r).body.data.result)
     \/ /\ Transformed(r).body.data.result.t = "string"
        /\ ~startsWith(Transformed(r).body.data.result.v, "http")

\* C5 as stated: both UpstreamBadResponse and UpstreamInvalidResult are
\* answered with status 500.
C5_Original_BothAre500 ==
  \A r \in Reqs :
    (IsProcess(r) /\ (UpstreamBadResponse(r) \/ UpstreamInvalidResult(r))) =>
      Answer(r).status = 500

\* C5 (amended): a 2xx transform response whose content type is not JSON is
\* answered with status 500; a 2xx JSON response with success true and a
\* result that is missing, empty, or a string not starting with "http" is
\* answered with status 400.
C5_BadResponse500_InvalidResult400 ==
  \A r \in Reqs :
    /\ (IsProcess(r) /\ UpstreamBadResponse(r)) =>
         (Len(responses[r]) = 1 /\ Answer(r).status = 500)
    /\ (IsProcess(r) /\ UpstreamInvalidResult(r)) =>
         (Len(responses[r]) = 1 /\ Answer(r).status = 400)

C5_Witness ==
  /\ \E r \in Reqs : IsProcess(r) /\ UpstreamBadResponse(r) /\ Answer(r).status = 500
  /\ \E r \in Reqs : IsProcess(r) /\ UpstreamInvalidResult(r) /\ Answer(r).status = 400

\* One of the two outbound calls of request r failed at the network level
NetworkUnreachable(r) ==
  \/ (hostOut[r] # << >> /\ Hosted(r).kind = "reject")
  \/ (apiOut[r] # << >> /\ Transformed(r).kind = "reject")

\* C6: a network-level failure of either outbound call is answered with
\* status 503.
C6_NetworkFailureIs503 ==
  \A r \in Reqs :
    (IsProcess(r) /\ Done(r) /\ NetworkUnreachable(r)) => Answer(r).status = 503

\* The response is the relay's attachment (not a JSON body)
IsAttachment(resp) == "headers" \in DOMAIN resp

\* C7: every /api/process and /api/download request gets exactly one
\* response: none while its handler is suspended, one once it has finished
\* (whatever the upstream outcomes were), never two; and the download relay
\* writes nothing after an attachment.
C7_ExactlyOneResponse ==
  \A r \in Reqs :
    (IsProcess(r) \/ IsDownload(r)) =>
      /\ Len(responses[r]) <= 1
      /\ Done(r) <=> Len(responses[r]) = 1
      /\ pc[r] \in {"awaitUpload", "awaitTransform", "awaitApiBody", "awaitFetch", "done"}
      /\ (NetworkUnreachable(r) \/ HostingFailed(r)) => Done(r)
      /\ (dlOut[r] # << >>) => Done(r)
      /\ \A i \in 1..Len(responses[r]) :
           IsAttachment(responses[r][i]) => i = Len(responses[r])

C7_Witness ==
  /\ \E r \in Reqs : /\ IsDownload(r) /\ Done(r)
                     /\ dlOut[r] # << >>
                     /\ dlOut[r][1].lateFailure
                     /\ IsAttachment(Answer(r))
                     /\ Len(responses[r]) = 1
  /\ \E r \in Reqs : /\ IsProcess(r) /\ Done(r) /\ NetworkUnreachable(r)
                     /\ Len(responses[r]) = 1

\* C8: every failure response of /api/process, the missing-input response
\* included, carries success = false, a message and a timestamp.
C8_ErrorBodyShape ==
  \A r \in Reqs :
    (IsProcess(r) /\ Done(r) /\ Answer(r).status # 200) =>
      /\ DOMAIN Answer(r).body = {"success", "message", "timestamp"}
      /\ Answer(r).body.success = FALSE

\* Both upstream calls of request r were made, once each, and both succeeded
BothUpstreamSucceeded(r) ==
  /\ Len(hostCalls[r]) = 1 /\ Len(hostOut[r]) = 1
  /\ Hosted(r).kind = "response" /\ ok(Hosted(r).status)
  /\ Len(transformCalls[r]) = 1 /\ Len(apiOut[r]) = 1
  /\ Transformed(r).kind = "response" /\ ok(Transformed(r).status)

\* C9: the status of every /api/process response is one of 200, 400, 404,
\* 429, 500, 503, and it is 200 only when both upstream calls were made and
\* both succeeded.
C9_StatusSet ==
  \A r \in Reqs :
    (IsProcess(r) /\ responses[r] # << >>) =>
      /\ Answer(r).status \in {200, 400, 404, 429, 500, 503}
      /\ Answer(r).status = 200 => BothUpstreamSucceeded(r)

C9_Witness ==
  /\ \E r \in Reqs : IsProcess(r) /\ Done(r) /\ Answer(r).status = 200
  /\ \E r \in Reqs : IsProcess(r) /\ Done(r) /\ Answer(r).status = 500
                     /\ hostOut[r] # << >> /\ Hosted(r).status = 403

\* C10: a GET /api/download request without url is answered with status 400
\* ("Image URL is required") and no fetch is issued for it.
C10_MissingUrl ==
  \A r \in Reqs :
    (IsDownload(r) /\ ~Truthy(input[r].url)) =>
      /\ Done(r)
      /\ Len(responses[r]) = 1
      /\ Answer(r).status = 400
      /\ Answer(r).body.message = "Image URL is required"
      /\ fetchCalls[r] = << >>
      /\ dlOut[r] = << >>

C10_Witness ==
  /\ \E r \in Reqs : IsDownload(r) /\ input[r].url = Undef /\ Done(r)
  /\ \E r \in Reqs : IsDownload(r) /\ input[r].url = Str("") /\ Done(r)

\* The fetch of download request r returned a 2xx response
Fetched2xx(r) ==
  /\ dlOut[r] # << >>
  /\ dlOut[r][1].kind = "response"
  /\ ok(dlOut[r][1].status)

\* The download request r has been answered with an attachment
Relayed(r) ==
  /\ IsDownload(r)
  /\ Done(r)
  /\ responses[r] # << >>
  /\ IsAttachment(Answer(r))

endsWith(s, suffix) ==
  /\ Len(s) >= Len(suffix)
  /\ SubSeq(s, Len(s) - Len(suffix) + 1, Len(s)) = suffix

\* The filename inside a header value  attachment; filename="<name>"
dispositionFilename(h) == SubSeq(h, Len("attachment; filename=\"") + 1, Len(h) - 1)

SentFilename(r) == dispositionFilename(Answer(r).headers.contentDisposition)

\* C11 as stated: every relayed download whose fetch returned 2xx with
\* content type image/jpeg carries a filename with extension .jpg and a
\* Content-Length equal to the number of bytes fetched.
C11_Original_JpegAlwaysJpg ==
  \A r \in Reqs :
    (Relayed(r) /\ Fetched2xx(r) /\ dlOut[r][1].contentType = Str("image/jpeg")) =>
      /\ endsWith(SentFilename(r), ".jpg")
      /\ Answer(r).headers.contentLength = Len(dlOut[r][1].bytes)

\* C11 amended: when the fetch of a download request without a filename
\* parameter returns 2xx with content type image/jpeg, the request is
\* answered with an attachment whose filename has extension .jpg and whose
\* Content-Length equals the number of bytes fetched; with a filename
\* parameter the Content-Length still equals the number of bytes fetched.
C11_JpegExtensionAndLength ==
  \A r \in Reqs :
    (IsDownload(r) /\ Fetched2xx(r) /\ dlOut[r][1].contentType = Str("image/jpeg")) =>
      /\ ~Truthy(input[r].filename) =>
           /\ Relayed(r)
           /\ endsWith(SentFilename(r), ".jpg")
      /\ Relayed(r) =>
           /\ Answer(r).headers.contentLength = Len(dlOut[r][1].bytes)
           /\ Answer(r).body = dlOut[r][1].bytes

C11_Witness ==
  /\ \E r \in Reqs : /\ Relayed(r) /\ Fetched2xx(r)
                     /\ dlOut[r][1].contentType = Str("image/jpeg")
                     /\ input[r].filename = Undef
                     /\ Answer(r).headers.contentLength = 4
  /\ \E r \in Reqs : /\ Relayed(r) /\ Fetched2xx(r)
                     /\ dlOut[r][1].contentType = Str("image/jpeg")
                     /\ SentFilename(r) = "my.png"

\* Everything the server holds for the request in slot r
RequestState(r) ==
  <<pc[r], route[r], input[r], loc[r], hostCalls[r], transformCalls[r],
    fetchCalls[r], hostOut[r], apiOut[r], dlOut[r], headersSent[r], responses[r]>>

\* The slots whose health check has been answered
HealthAnswered == {r \in Slots : route[r] = "health" /\ responses[r] # << >>}

\* The step answers the health check of slot r
HealthStep(r) == route[r] # "health" /\ route'[r] = "health"

\* C12: GET /health is always answered with status 200 and status "OK"; a
\* health check leaves the state of every other request and the upstream
\* calls unchanged, and the uptime it reports is not below the uptime
\* reported by any health check answered before it.
C12_HealthIdempotent ==
  /\ [](\A r \in Slots :
          route[r] = "health" =>
            /\ Done(r)
            /\ Len(responses[r]) = 1
            /\ Answer(r).status = 200
            /\ Answer(r).body.status = "OK")
  /\ [][\A r \in Slots :
          HealthStep(r) =>
            /\ now' = now
            /\ \A q \in Slots \ {r} : RequestState(q)' = RequestState(q)
            /\ <<input[r], loc[r], hostCalls[r], transformCalls[r], fetchCalls[r],
                 hostOut[r], apiOut[r], dlOut[r]>>'
                 = <<input[r], loc[r], hostCalls[r], transformCalls[r],
                     fetchCalls[r], hostOut[r], apiOut[r], dlOut[r]>>
            /\ \A q \in HealthAnswered :
                 responses'[r][1].body.uptime >= Answer(q).body.uptime]_vars

\* Two health checks answered at different times around a process request
\* that is still waiting for the transform API
C12_Witness ==
  /\ \E p, q \in HealthAnswered : Answer(q).body.uptime > Answer(p).body.uptime
  /\ IsProcess(1) /\ pc[1] = "awaitTransform" /\ Len(hostCalls[1]) = 1

\* The hosting call of request r has been issued and has not settled
HostingInFlight(r) == Len(hostCalls[r]) > Len(hostOut[r])

\* The transform call of request r has been issued and has not settled
TransformInFlight(r) == Len(transformCalls[r]) > Len(apiOut[r])

\* Request r has been answered with an error
Failed(r) == responses[r] # << >> /\ Answer(r).status >= 400

\* The hosting step of request r failed: no response, a non-2xx response, or
\* a text that is not a hosted URL
HostingStepFailed(r) ==
  /\ hostOut[r] # << >>
  /\ (HostingFailed(r) \/ ~validHostedUrl(Hosted(r).text))

\* C13: within one POST /api/process request the hosting call and the
\* transform call are each issued at most once, the transform call is issued
\* only after the hosting call has completed, the two are never in flight
\* together, and once a step has failed the request is answered and no
\* later step of it runs.
C13_SequentialNoRetry ==
  /\ [](\A r \in Reqs :
          IsProcess(r) =>
            /\ Len(hostCalls[r]) <= 1
            /\ Len(transformCalls[r]) <= 1
            /\ transformCalls[r] # << >> =>
                 (Len(hostOut[r]) = 1 /\ ~HostingInFlight(r))
            /\ ~(HostingInFlight(r) /\ TransformInFlight(r))
            /\ HostingStepFailed(r) =>
                 (Failed(r) /\ transformCalls[r] = << >> /\ apiOut[r] = << >>)
            /\ Failed(r) =>
                 (Done(r) /\ ~HostingInFlight(r) /\ ~TransformInFlight(r)))
  /\ [][\A r \in Reqs :
          (IsProcess(r) /\ Failed(r)) => RequestState(r)' = RequestState(r)]_vars

C13_Witness ==
  /\ \E r \in Reqs : /\ IsProcess(r) /\ Done(r) /\ Answer(r).status = 200
                     /\ Len(hostCalls[r]) = 1 /\ Len(transformCalls[r]) = 1
  /\ \E r \in Reqs : /\ IsProcess(r) /\ HostingStepFailed(r) /\ Failed(r)
                     /\ Len(hostCalls[r]) = 1

\* What decides the answer of request r: the route, the input and the
\* outcomes of the upstream calls made for it
OwnInputs(r) == <<route[r], input[r], hostOut[r], apiOut[r], dlOut[r]>>

\* C14: with requests interleaved at their upstream calls in any order, the
\* responses of a finished request are determined by its own input and the
\* upstream responses to its own calls (two requests that agree on these
\* have the same responses and issued the same calls), and a step of one
\* request changes the state of no other request.
C14_RequestIsolation ==
  /\ [](\A r, q \in Reqs :
          (Done(r) /\ Done(q) /\ OwnInputs(r) = OwnInputs(q)) =>
            /\ responses[r] = responses[q]
            /\ hostCalls[r] = hostCalls[q]
            /\ transformCalls[r] = transformCalls[q]
            /\ fetchCalls[r] = fetchCalls[q])
  /\ [][\E r \in Reqs :
          \A q \in Slots \ {r} : RequestState(q)' = RequestState(q)]_vars

\* Two finished process requests with the same input and the same upstream
\* outcomes, both relayed to the transform API
C14_Witness ==
  \E r, q \in Reqs :
    /\ r # q
    /\ IsProcess(r) /\ Done(r) /\ Done(q) /\ OwnInputs(r) = OwnInputs(q)
    /\ apiOut[r] # << >>
    /\ Answer(r).status = 200

\* The hosting service answered request r with a 2xx response
HostingAnswered2xx(r) ==
  /\ hostOut[r] # << >>
  /\ Hosted(r).kind = "response"
  /\ ok(Hosted(r).status)

\* C16: when the hosting call returns a 2xx response whose body is empty or
\* does not begin with "https://", the request fails with the error
\* "Invalid URL from image hosting" and the transform API is never called;
\* every transform call that is made carries a hosted URL that begins with
\* "https://".
C16_HostedUrlGate ==
  \A r \in Reqs :
    IsProcess(r) =>
      /\ (HostingAnswered2xx(r) /\ ~startsWith(Hosted(r).text, "https://")) =>
           /\ Done(r)
           /\ Len(responses[r]) = 1
           /\ Answer(r).status >= 400
           /\ Answer(r).body.success = FALSE
           /\ Answer(r).body.message = "Invalid URL from image hosting"
           /\ transformCalls[r] = << >>
           /\ apiOut[r] = << >>
      /\ \A i \in 1..Len(transformCalls[r]) :
           /\ HostingAnswered2xx(r)
           /\ startsWith(Hosted(r).text, "https://")
           /\ startsWith(transformCalls[r][i], TransformEndpoint \o "https%3A%2F%2F")

C16_Witness ==
  /\ \E r \in Reqs : /\ IsProcess(r) /\ HostingAnswered2xx(r) /\ Done(r)
                     /\ Hosted(r).text \in {"", "http://files.catbox.moe/a1.png"}
                     /\ transformCalls[r] = << >>
  /\ \E r \in Reqs : /\ IsProcess(r) /\ HostingAnswered2xx(r)
                     /\ Len(transformCalls[r]) = 1

\* The transform API answered request r with a 2xx JSON body that parsed to
\* an object
TransformJsonBody(r) ==
  /\ TransformAnswered(r)
  /\ ok(Transformed(r).status)
  /\ isJsonType(Transformed(r).contentType)
  /\ Transformed(r).body.parsed
  /\ Transformed(r).body.data.t = "object"

\* C17: when the transform call returns a 2xx JSON body, a success response
\* is produced only if the body's success field equals true; for any other
\* value of success the request is answered with an error and the body's
\* result is not returned.
C17_SuccessOnlyIfTrue ==
  \A r \in Reqs :
    (IsProcess(r) /\ TransformJsonBody(r)) =>
      /\ Answer(r).status = 200 => Transformed(r).body.data.success = Bool(TRUE)
      /\ Transformed(r).body.data.success # Bool(TRUE) =>
           /\ Answer(r).status >= 400
           /\ Answer(r).body.success = FALSE
           /\ "result" \notin DOMAIN Answer(r).body

\* The fetch of download request r returned a response with a non-2xx status
FetchedNon2xx(r) ==
  /\ dlOut[r] # << >>
  /\ dlOut[r][1].kind = "response"
  /\ ~ok(dlOut[r][1].status)

\* C18: when the fetch of a download request returns a non-2xx status, the
\* request is answered with one error response whose message carries that
\* status, and neither attachment headers nor the fetched bytes are sent.
C18_FetchFailed ==
  \A r \in Reqs :
    (IsDownload(r) /\ FetchedNon2xx(r)) =>
      /\ Done(r)
      /\ Len(responses[r]) = 1
      /\ ~IsAttachment(Answer(r))
      /\ Answer(r).status = 500
      /\ Answer(r).body.success = FALSE
      /\ Answer(r).body.message
           = "Failed to fetch image: " \o ToString(dlOut[r][1].status)
      /\ ~includes(Answer(r).body.message, dlOut[r][1].bytes)

C18_Witness ==
  \E r \in Reqs : /\ IsDownload(r) /\ FetchedNon2xx(r) /\ Done(r)
                  /\ dlOut[r][1].status = 404
                  /\ Answer(r).body.message = "Failed to fetch image: 404"

\* The content type of the response fetched for download request r ("" when
\* the response has none)
FetchedType(r) ==
  IF dlOut[r][1].contentType.t = "string" THEN dlOut[r][1].contentType.v ELSE ""

\* C19: the filename of every attachment the relay sends is the filename
\* parameter when one is given, and otherwise result_<timestamp>.<ext> with
\* ext chosen from the fetched content type by first match: "jpeg" or "jpg"
\* gives jpg, "webp" gives webp, "gif" gives gif, anything else (an absent
\* content type included) gives png.
C19_Filename ==
  \A r \in Reqs :
    Relayed(r) =>
      IF Truthy(input[r].filename)
      THEN SentFilename(r) = input[r].filename.v
      ELSE \E t \in 0..MaxClock :
             SentFilename(r) =
               "result_" \o ToString(t) \o "."
               \o (CASE includes(FetchedType(r), "jpeg") -> "jpg"
                     [] /\ ~includes(FetchedType(r), "jpeg")
                        /\ includes(FetchedType(r), "jpg") -> "jpg"
                     [] /\ ~includes(FetchedType(r), "jpeg")
                        /\ ~includes(FetchedType(r), "jpg")
                        /\ includes(FetchedType(r), "webp") -> "webp"
                     [] /\ ~includes(FetchedType(r), "jpeg")
                        /\ ~includes(FetchedType(r), "jpg")
                        /\ ~includes(FetchedType(r), "webp")
                        /\ includes(FetchedType(r), "gif") -> "gif"
                     [] OTHER -> "png")

C19_Witness ==
  /\ \E r \in Reqs : /\ Relayed(r) /\ input[r].filename = Undef
                     /\ FetchedType(r) = "image/gif; name=a.webp"
                     /\ SentFilename(r) = "result_0.webp"
  /\ \E r \in Reqs : /\ Relayed(r)
                     /\ \/ input[r].filename = Str("my.png") /\ SentFilename(r) = "my.png"
                        \/ FetchedType(r) = "" /\ SentFilename(r) = "result_0.png"
                        \/ FetchedType(r) = "image/jpg" /\ SentFilename(r) = "result_0.jpg"

\* Request r has been answered with a success payload
Succeeded(r) ==
  /\ IsProcess(r)
  /\ Done(r)
  /\ responses[r] # << >>
  /\ Answer(r).status = 200

Ms(n) == ToString(n) \o "ms"

\* The reported total is a count of ticks that is at least n
TotalAtLeast(r, n) ==
  \E k \in 0..MaxClock : Answer(r).body.timing.total = Ms(k) /\ k >= n

\* C20: in every success response of POST /api/process the reported upload
\* and processing times are the times the handler measured around the
\* hosting call and the transform call, and the reported total is at least
\* their sum.
C20_OwnMeasurements ==
  \A r \in Reqs :
    Succeeded(r) =>
      /\ Answer(r).body.timing.upload = Ms(loc[r].uploadTime)
      /\ Answer(r).body.timing.processing = Str(Ms(loc[r].processTime))
      /\ TotalAtLeast(r, loc[r].uploadTime + loc[r].processTime)

\* C15: a call of processImage does not wait longer than the wait ceiling:
\* while it waits no more than the ceiling has passed since the request was
\* sent, and a call ended by the timeout has thrown the 'Processing took too
\* long' error to its caller.
C15_BoundedWait ==
  /\ Waiting => now - client.sentAt <= WaitCeiling
  /\ client.timedOut =>
       /\ client.pc = "thrown"
       /\ startsWith(client.errorMessage, "Processing took too long")

\* The timeout of the processImage call has fired and the caller has been
\* told; the browser has given up
GaveUp == client.timedOut /\ client.pc = "thrown"

\* C21: when the timeout of the client's call fires while the server is
\* working on the request, the server's work is not cancelled: the step of
\* the timeout changes nothing the server holds, and after it every
\* remaining step of the handler (the settling of the hosting upload, the
\* transform call, the reading of its body, the response) is still taken
\* as soon as its upstream call settles.
C21_ServerNotCancelled ==
  /\ [][(~client.timedOut /\ client.timedOut') => server' = server]_vars
  /\ [](GaveUp =>
          /\ pc[1] = "awaitUpload" => ENABLED (\E out \in HostOutcomes : UploadSettles(1, out))
          /\ pc[1] = "awaitTransform" => ENABLED TransformSettles(1)
          /\ pc[1] = "awaitApiBody" => ENABLED ApiBodyRead(1))

\* The browser gave up at the ceiling; the server's upload settled later, it
\* then called the transform API and answered with the result
C21_Witness ==
  /\ GaveUp
  /\ IsProcess(1) /\ Done(1)
  /\ Answer(1).status = 200
  /\ Len(transformCalls[1]) = 1
  /\ loc[1].processStartTime > client.sentAt + WaitCeiling

\* The transform API answered request r with a 2xx JSON body that reports a
\* failure (success false) with a message
TransformReportedFailure(r) ==
  /\ TransformJsonBody(r)
  /\ Transformed(r).body.data.success = Bool(FALSE)
  /\ Transformed(r).body.data.message.t = "string"

\* C22: the status of a failed POST /api/process depends on the step that
\* failed and the upstream status only: two requests whose transform call
\* answered with the same status and a JSON body reporting a failure, and
\* which differ only in the message of that body, get the same status.
C22_StatusIgnoresMessage ==
  \A r, q \in Reqs :
    (/\ IsProcess(r) /\ IsProcess(q)
     /\ TransformReportedFailure(r) /\ TransformReportedFailure(q)
     /\ input[r] = input[q]
     /\ hostOut[r] = hostOut[q]
     /\ Transformed(r).status = Transformed(q).status
     /\ Transformed(r).contentType = Transformed(q).contentType) =>
      Answer(r).status = Answer(q).status

\* A run of handleGenerate is under way
Generating == client.gen \in {"readingFile", "processing"}

\* What the page shows when a run of handleGenerate has finished
FinishedCleanly ==
  /\ client.progressInterval = Null
  /\ client.timers = {}
  /\ ~client.processingLoader
  /\ \/ /\ client.resultSection
        /\ ~client.uploadSection
        /\ ~client.errorMessageShown
        /\ client.pc = "returned"
        /\ client.resultImageUrl = Str(client.result)
     \/ /\ client.uploadSection
        /\ ~client.resultSection
        /\ client.errorMessageShown
        /\ client.errorText # ""

\* C23: every run of handleGenerate that starts with a selected file
\* eventually finishes; when it finishes the progress timer is stopped
\* (progressInterval is null), the processing loader is hidden and exactly
\* one outcome is visible: the result section with resultImageUrl set to the
\* returned result, or the upload section with an error message; at no time
\* is more than one progress timer running.
C23_GenerateFinishes ==
  /\ Generating ~> client.gen = "finished"
  /\ [][(client.gen # "finished" /\ client.gen' = "finished") => FinishedCleanly']_vars
  /\ [](Cardinality(client.timers) <= 1)
====
